---- MODULE Spec2Model ----
(***************************************************************************)
(* Model of ulog_scraper/spiders/log_downloader.py (LogDownloaderSpider).  *)
(*                                                                         *)
(* The spider is a sequential program that drives a browser.  The browser  *)
(* is the environment: what a locator returns, whether a wait's condition  *)
(* becomes true, where a navigation lands and whether an element           *)
(* interaction throws are chosen nondeterministically.  The program's      *)
(* position (pc, step, cand) is part of the state, and every call into     *)
(* the browser whose answer the program branches on is one action.         *)
(*                                                                         *)
(* Environment assumptions, stated once:                                   *)
(*  - waits, driver.get, find_elements, element reads and element          *)
(*    interactions (click, clear, send_keys) may throw;                    *)
(*  - the diagnostics (self.log, save_screenshot, reading current_url for  *)
(*    a log line or the sentinel file) do not throw.                       *)
(***************************************************************************)
EXTENDS Integers, Sequences, FiniteSets, TLC

\* ------------------------------------------------------------------ bounds
\* longest element list one find_elements call returns
MaxElems == 2
\* number of polls a bounded wait makes before its timeout expires
MaxPolls == 2
\* longest list of anchors on the logs listing page
MaxLinks == 2

\* ------------------------------------------------------------- python values
None == "None"

\* Python truthiness of an optional string
Truthy(v) == v # None /\ v # ""

\* `a or b`
PyOr(a, b) == IF Truthy(a) THEN a ELSE b

SeqsUpTo(S, n) == UNION {[1..k -> S] : k \in 0..n}

\* ---------------------------------------------------------------------- URLs
ServiceDomain == "suite.auterion.com"

Url(s, h, p) == [scheme |-> s, host |-> h, path |-> p]

LoginUrl == Url("https", ServiceDomain, "/login")

VehiclesUrl == Url("https", ServiceDomain, "/vehicles")

LogsUrl == Url("https", ServiceDomain, "/logs")

\* an identity provider the login form may redirect the browser to
IdpUrl == Url("https", "auth.example.com", "/u/login")

\* a foreign page whose query string mentions the service domain
IdpMentionUrl == Url("https", "auth.example.com", "/u/login?redirect=suite.auterion.com")

NoUrl == Url("", "", "")

\* where the browser can be after the page changed under the program
Landings == {Url("https", ServiceDomain, "/"), IdpUrl}

\* where the browser can be while the login form is being submitted
LoginLandings == Landings \cup {IdpMentionUrl}

\* 'suite.auterion.com' in driver.current_url  (a substring test on the whole URL)
ContainsServiceDomain(u) ==
    \/ u.host = ServiceDomain
    \/ u.path = "/u/login?redirect=suite.auterion.com"

ReadyStates == {"loading", "complete"}

\* the mutant: the conjunction weakened to the URL test alone
LoginCompleteUrlOnly(u, ready) == ContainsServiceDomain(u)

\* the predicate of the login-completion wait
LoginComplete(u, ready) == ContainsServiceDomain(u) /\ ready = "complete"

\* ---------------------------------------------------------------- credentials
\* what a constructor argument can be: absent, empty, or a value
CredValues == {None, "", "secret"}

\* what os.environ.get can return: unset, empty, or a value (another one)
EnvValues == {None, "", "env_secret"}

\* the mutant: the environment wins over the argument
CredentialOfEnvFirst(arg, env) == PyOr(env, arg)

\* `username or os.environ.get('AUTERION_USERNAME')`
CredentialOf(arg, env) == PyOr(arg, env)

\* the mutant: only the username is validated
UsernameOnlyOk(u, p) == Truthy(u)

\* `not (not self.username or not self.password)`
CredentialsOk(u, p) == Truthy(u) /\ Truthy(p)

\* ------------------------------------------------------------------- elements
Elem(d, t, p, l) == [displayed |-> d, text |-> t, placeholder |-> p, hasLink |-> l]

NoElem == Elem(FALSE, "<none>", "<none>", FALSE)

LoginSteps == <<"login_button", "email", "continue", "password", "submit">>

NavSteps == <<"search", "vehicle", "all_flights", "flight", "log_tab", "analytics", "download">>

ClickSteps == {"vehicle", "all_flights", "flight", "log_tab", "analytics", "download"}

\* number of candidate locators of each step's list
NumCandidates(s) ==
    CASE s = "login_button" -> 3
      [] s = "email" -> 12
      [] s = "continue" -> 5
      [] s = "password" -> 3
      [] s = "submit" -> 5
      [] s = "search" -> 5
      [] s = "vehicle" -> 6
      [] s = "all_flights" -> 6
      [] s = "flight" -> 8
      [] s = "log_tab" -> 8
      [] s = "analytics" -> 8
      [] s = "download" -> 10

\* the elements a page may hold where a step looks: for each filter an element
\* that passes, one that is hidden, and ones that fail each part of the test
ElemsAt(s) ==
    CASE s = "vehicle" ->
            {Elem(TRUE, "Astro DV21 (Nate)", "", FALSE), Elem(FALSE, "Astro DV21 (Nate)", "", FALSE),
             Elem(TRUE, "Astro DV7", "", FALSE)}
      [] s = "all_flights" ->
            {Elem(TRUE, "All Flights", "", FALSE), Elem(FALSE, "All Flights", "", FALSE),
             Elem(TRUE, "Recent flights", "", FALSE)}
      [] s = "flight" ->
            {Elem(TRUE, "MXNT01 #87", "", TRUE), Elem(TRUE, "MXNT01 #87", "", FALSE),
             Elem(FALSE, "MXNT01 #87", "", TRUE), Elem(TRUE, "ABCD02 #3", "", TRUE)}
      [] s = "log_tab" ->
            {Elem(TRUE, "log", "", FALSE), Elem(FALSE, "log", "", FALSE),
             Elem(TRUE, "Login", "", FALSE), Elem(TRUE, "Catalog", "", FALSE),
             Elem(TRUE, "", "", FALSE)}
      [] s = "analytics" ->
            {Elem(TRUE, "View Analytics", "", FALSE), Elem(FALSE, "View Analytics", "", FALSE),
             Elem(TRUE, "View", "", FALSE)}
      [] s = "download" ->
            {Elem(TRUE, "Download log", "", FALSE), Elem(FALSE, "Download log", "", FALSE),
             Elem(TRUE, "Download report", "", FALSE), Elem(TRUE, "Upload", "", FALSE),
             Elem(TRUE, "", "Download log", FALSE)}
      [] OTHER -> {Elem(TRUE, "", "", FALSE), Elem(FALSE, "", "", FALSE)}

\* str.lower() on the texts of the model
Lower(t) ==
    CASE t = "Login" -> "login"
      [] t = "Catalog" -> "catalog"
      [] OTHER -> t

\* the needles of the program that occur in a text (Python's `needle in text`)
NeedlesIn(t) ==
    CASE t = "Astro DV21 (Nate)" -> {"DV21"}
      [] t = "All Flights" -> {"All Flights"}
      [] t = "MXNT01 #87" -> {"MXNT"}
      [] t = "log" -> {"log"}
      [] t = "login" -> {"log", "login"}
      [] t = "catalog" -> {"log", "catalog"}
      [] t = "View Analytics" -> {"View Analytics"}
      [] t = "Download log" -> {"Download", "Download log", "log"}
      [] t = "Download report" -> {"Download"}
      [] OTHER -> {}

Contains(t, needle) == needle \in NeedlesIn(t)

\* the mutant: any displayed element whose text contains "log" is the log tab
StepFilterAnyLog(s, e) ==
    CASE s = "search" -> e.displayed
      [] s = "vehicle" -> e.displayed /\ Contains(e.text, "DV21")
      [] s = "all_flights" -> e.displayed /\ Contains(e.text, "All Flights")
      [] s = "flight" -> e.displayed /\ Contains(e.text, "MXNT")
      [] s = "log_tab" -> e.displayed /\ Contains(Lower(e.text), "log")
      [] s = "analytics" -> e.displayed /\ Contains(e.text, "View Analytics")
      [] s = "download" ->
            /\ e.displayed
            /\ \/ Contains(e.text, "Download")
               \/ (e.placeholder # "" /\ Contains(e.placeholder, "Download"))
      [] OTHER -> FALSE

\* the visibility and text/attribute test a navigator step applies to an element
StepFilter(s, e) ==
    CASE s = "search" -> e.displayed
      [] s = "vehicle" -> e.displayed /\ Contains(e.text, "DV21")
      [] s = "all_flights" -> e.displayed /\ Contains(e.text, "All Flights")
      [] s = "flight" -> e.displayed /\ Contains(e.text, "MXNT")
      [] s = "log_tab" ->
            /\ e.displayed
            /\ Contains(Lower(e.text), "log")
            /\ ~ \E x \in {"login", "logout", "catalog"} : Contains(Lower(e.text), x)
      [] s = "analytics" -> e.displayed /\ Contains(e.text, "View Analytics")
      [] s = "download" ->
            /\ e.displayed
            /\ \/ Contains(e.text, "Download")
               \/ (e.placeholder # "" /\ Contains(e.placeholder, "Download"))
      [] OTHER -> FALSE

RECURSIVE FirstMatch(_, _)
\* `for element in elements: if <filter>: found = element; break`
FirstMatch(s, elems) ==
    IF elems = <<>> THEN NoElem
    ELSE IF StepFilter(s, Head(elems)) THEN Head(elems)
    ELSE FirstMatch(s, Tail(elems))

\* the mutant: the last element of the list is taken
LastPresent(elems) == IF elems = <<>> THEN NoElem ELSE elems[Len(elems)]

\* `if elements: found = elements[0]`
FirstPresent(elems) == IF elems = <<>> THEN NoElem ELSE Head(elems)

\* whether the locate loop of step s keeps the element e of a returned list:
\* the login steps keep whatever is present, the navigator steps what passes
\* their filter
Passes(s, e) ==
    IF s \in {LoginSteps[i] : i \in 1..Len(LoginSteps)} THEN TRUE ELSE StepFilter(s, e)

\* the element of the least position of elems that the step keeps
FirstPassing(s, elems) ==
    LET idx == {i \in DOMAIN elems : Passes(s, elems[i])}
    IN  IF idx = {} THEN NoElem ELSE elems[CHOOSE i \in idx : \A j \in idx : i <= j]

\* nothing probed yet
NoProbe == [first |-> NoElem, later |-> FALSE]

\* the record of the page's answers after one more candidate returned elems:
\* the first element that any candidate returned and that the step keeps, and
\* whether a candidate was probed after the one that returned it
Observe(p, s, elems) ==
    [first |-> IF p.first = NoElem THEN FirstPassing(s, elems) ELSE p.first,
     later |-> p.first # NoElem]

\* what the locate loop of step s takes from one list returned by
\* find_elements: the element the loop's code keeps, the first element of the
\* list the step keeps, and whether the list was empty
Answer(s, elems) ==
    [match |-> IF s \in {LoginSteps[i] : i \in 1..Len(LoginSteps)}
               THEN FirstPresent(elems) ELSE FirstMatch(s, elems),
     first |-> FirstPassing(s, elems),
     empty |-> elems = <<>>]

\* an answer as the shortest list that gives it to the record of the probes
AsList(a) == IF a.first = NoElem THEN <<>> ELSE <<a.first>>

\* per step, the answers of all the lists of at most MaxElems elements that
\* the page can return to one find_elements call
Answers ==
    [s \in {LoginSteps[i] : i \in 1..Len(LoginSteps)} \cup {NavSteps[i] : i \in 1..Len(NavSteps)} |->
        {Answer(s, elems) : elems \in SeqsUpTo(ElemsAt(s), MaxElems)}]

\* ---------------------------------------------------------------------- state
VARIABLES
    pc,                 \* position of the program
    step,               \* the login or navigator step being worked on
    cand,               \* index of the candidate locator being probed
    target,             \* the element the current step found (NoElem: none)
    probe,              \* what the candidates probed so far in the step have returned
    polls,              \* polls made so far by the wait in progress
    username, password, \* self.username, self.password
    given,              \* the constructor's arguments and environment (locals of __init__)
    driver,             \* the browser session: "none", "open", "quit"
    url,                \* driver.current_url
    calls,              \* browser commands issued so far, in order
    contacted,          \* URLs the program navigated to or fetched
    keep_browser_open,  \* self.keep_browser_open (FALSE: attribute not set)
    sentinel,           \* the writes made to browser_open.txt, in order
    quitCount,          \* number of driver.quit() calls
    loginWait,          \* outcome of the login-completion wait
    lastPoll,           \* what the last poll of the login-completion wait saw
    loginResult,        \* outcome of perform_login: "none", "true", "raised"
    navCalls,           \* number of calls of navigate_to_vehicles
    timedOut,           \* the step whose page-ready wait timed out ("none": no wait did)
    navOutcome,         \* "none", "completed" (no exception), "error" (exception caught)
    searches,           \* per step, how many times its locate loop was started
    requests,           \* the requests start_requests handed to the engine
    logged,             \* warnings and errors logged
    cookies,            \* the browser's cookie jar, as (name, value) records in order
    queue,              \* requests the engine has accepted and not yet answered
    seen,               \* URLs the engine's duplicate filter has recorded
    page,               \* the logs listing page once it was parsed: its URL, its anchors and
                        \* the requests parse_logs_page yielded for them
    failed,             \* URLs whose download failed (no callback is run for them)
    files,              \* logs/downloaded: path -> body
    items,              \* records returned by save_log_file, in order
    file,               \* the configuration file, as its lines in order
    lineNo,             \* number of lines parseConfig has read
    jobs,               \* the VehicleJobs parsed so far, in order
    warnings,           \* the line numbers parseConfig warned about, in order
    index,              \* processAll's index into the job list
    attempts            \* the navigation cycles attempted, in order, with their outcomes

pos == <<pc, step, cand, target, probe, polls>>

creds == <<username, password, given>>

flags == <<keep_browser_open, sentinel, quitCount>>

loginSt == <<loginWait, lastPoll, loginResult>>

navSt == <<navCalls, timedOut, navOutcome, searches>>

retrieval == <<cookies, queue, seen, page, failed, files, items>>

batch == <<file, lineNo, jobs, warnings, index, attempts>>

vars == <<pos, creds, driver, url, calls, contacted, flags, loginSt, navSt,
          requests, logged, retrieval, batch>>

AllSteps == {LoginSteps[i] : i \in 1..Len(LoginSteps)} \cup {NavSteps[i] : i \in 1..Len(NavSteps)}

NoGiven == [username |-> None, password |-> None, env_username |-> None, env_password |-> None]

NoPoll == [url |-> NoUrl, ready |-> "loading"]

NoPage == [parsed |-> FALSE, url |-> NoUrl, hrefs |-> <<>>, yielded |-> <<>>]

Call(op, what, on) == [op |-> op, what |-> what, on |-> on]

\* no configuration file was read and no job processed
NoBatch ==
    /\ file = <<>> /\ lineNo = 0 /\ jobs = <<>> /\ warnings = <<>>
    /\ index = 0 /\ attempts = <<>>

\* the state before the spider object exists
Init ==
    /\ pc = "init" /\ step = "none" /\ cand = 0 /\ target = NoElem /\ probe = NoProbe
    /\ polls = 0
    /\ username = None /\ password = None /\ given = NoGiven
    /\ driver = "none" /\ url = NoUrl /\ calls = <<>> /\ contacted = {}
    /\ keep_browser_open = FALSE /\ sentinel = <<>> /\ quitCount = 0
    /\ loginWait = "none" /\ lastPoll = NoPoll /\ loginResult = "none"
    /\ navCalls = 0 /\ timedOut = "none" /\ navOutcome = "none" /\ searches = [s \in AllSteps |-> 0]
    /\ requests = <<>> /\ logged = {}
    /\ cookies = <<>> /\ queue = <<>> /\ seen = {} /\ page = NoPage /\ failed = {}
    /\ files = <<>> /\ items = <<>>
    /\ NoBatch

\* ------------------------------------------------------------------ __init__
\* LogDownloaderSpider.__init__: resolve the credentials, refuse to start
\* without them, otherwise create the browser session.
Construct ==
    /\ pc = "init"
    /\ \E ua \in CredValues, pa \in CredValues, ue \in EnvValues, pe \in EnvValues :
        /\ given' = [username |-> ua, password |-> pa, env_username |-> ue, env_password |-> pe]
        /\ username' = CredentialOf(ua, ue)
        /\ password' = CredentialOf(pa, pe)
        /\ IF CredentialsOk(username', password')
           THEN /\ driver' = "open"
                /\ pc' = "constructed"
                /\ logged' = logged
           ELSE /\ driver' = driver
                /\ pc' = "init_failed"
                /\ logged' = logged \cup {"ERROR: Username and password must be provided"}
    /\ UNCHANGED <<step, cand, target, probe, polls, url, calls, contacted, flags, loginSt,
                   navSt, requests, retrieval, batch>>

\* ------------------------------------------------------------ start_requests
\* what every failing path of perform_login does to the program: the outer
\* handler of perform_login logs and re-raises, the handler of start_requests
\* logs and returns the empty list.
LoginFails(msgs) ==
    /\ loginResult' = "raised"
    /\ logged' = logged \cup msgs \cup {"ERROR: Error during login process",
                                        "ERROR: Login process failed"}
    /\ requests' = <<>>
    /\ pc' = "sr_returned" /\ cand' = 0 /\ target' = NoElem /\ probe' = NoProbe /\ polls' = 0

\* start_requests up to the call of perform_login: driver.get of the login page
StartRequests ==
    /\ pc = "constructed"
    /\ given' = NoGiven
    /\ contacted' = contacted \cup {LoginUrl}
    /\ \E ok \in BOOLEAN, u \in {LoginUrl, IdpUrl} :
        IF ok
        THEN /\ calls' = Append(calls, Call("get", "/login", "driver"))
             /\ url' = u
             /\ pc' = "login_probe" /\ step' = "login_button" /\ cand' = 1
             /\ UNCHANGED <<target, probe, polls, requests, logged>>
        ELSE /\ u = LoginUrl
             /\ logged' = logged \cup {"ERROR: Login process failed"}
             /\ requests' = <<>>
             /\ pc' = "sr_returned"
             /\ UNCHANGED <<step, cand, target, probe, polls, calls, url>>
    /\ UNCHANGED <<username, password, driver, flags, loginSt, navSt, retrieval, batch>>

\* -------------------------------------------------------------- perform_login
\* the mutant: a missing email field is treated like a missing continue button
EmailNotFoundTolerated(s) == s \in {"login_button", "password"}

\* the steps whose missing element makes perform_login raise
LoginNotFoundFatal(s) == s \in {"login_button", "email", "password"}

\* the mutant: the password field is looked for before the email is submitted
NextLoginStepPasswordEarly(s) ==
    CASE s = "login_button" -> "email"
      [] s = "email" -> "password"
      [] s = "password" -> "continue"
      [] s = "continue" -> "submit"
      [] s = "submit" -> "wait"

\* the step that follows a login step
NextLoginStep(s) ==
    CASE s = "login_button" -> "email"
      [] s = "email" -> "continue"
      [] s = "continue" -> "password"
      [] s = "password" -> "submit"
      [] s = "submit" -> "wait"

\* where the program goes when it starts the login step s
EnterLoginStep(s) ==
    /\ step' = s
    /\ cand' = IF s = "wait" THEN 0 ELSE 1
    /\ target' = NoElem /\ probe' = NoProbe
    /\ polls' = 0
    /\ pc' = CASE s = "wait" -> "login_wait"
               [] s = "password" -> "password_wait"
               [] OTHER -> "login_probe"

\* one find_elements call of a presence-probing step (login button, email
\* field, continue button, submit button): the first element of the first
\* non-empty result is used.  Only the login-button loop has no handler of
\* its own around find_elements.
LoginProbe ==
    /\ pc = "login_probe"
    /\ step \in {"login_button", "email", "continue", "submit"}
    /\ searches' = [searches EXCEPT ![step] = IF cand = 1 THEN @ + 1 ELSE @]
    /\ \E throws \in BOOLEAN, a \in Answers[step] :
        /\ throws => a.empty
        /\ IF throws /\ step = "login_button"
           THEN LoginFails({}) /\ UNCHANGED step
           ELSE IF ~a.empty
           THEN /\ target' = a.match
                /\ probe' = Observe(probe, step, AsList(a))
                /\ pc' = "login_act"
                /\ UNCHANGED <<step, cand, polls, loginResult, logged, requests>>
           ELSE IF cand < NumCandidates(step)
           THEN /\ cand' = cand + 1
                /\ probe' = Observe(probe, step, AsList(a))
                /\ UNCHANGED <<pc, step, target, polls, loginResult, logged, requests>>
           ELSE /\ pc' = "login_notfound"
                /\ probe' = Observe(probe, step, AsList(a))
                /\ UNCHANGED <<step, cand, target, polls, loginResult, logged, requests>>
    /\ UNCHANGED <<creds, driver, url, calls, contacted, flags, loginWait, lastPoll,
                   navCalls, timedOut, navOutcome, retrieval, batch>>

\* the mutant: the first candidate that times out ends the search
PasswordWaitGivesUp ==
    /\ pc = "password_wait" /\ step = "password"
    /\ searches' = [searches EXCEPT ![step] = IF cand = 1 THEN @ + 1 ELSE @]
    /\ \E found \in BOOLEAN, e \in ElemsAt(step) :
        IF found
        THEN /\ target' = e
             /\ probe' = Observe(probe, step, <<e>>)
             /\ pc' = "login_act"
             /\ UNCHANGED cand
        ELSE /\ e = CHOOSE x \in ElemsAt(step) : TRUE
             /\ probe' = Observe(probe, step, <<>>)
             /\ pc' = "login_notfound" /\ UNCHANGED cand
             /\ UNCHANGED target
    /\ UNCHANGED <<step, polls, creds, driver, url, calls, contacted, flags, loginSt,
                   navCalls, timedOut, navOutcome, requests, logged, retrieval, batch>>

\* one candidate of the password field: WebDriverWait(driver, 5).until(presence)
\* inside a bare except
PasswordWait ==
    /\ pc = "password_wait" /\ step = "password"
    /\ searches' = [searches EXCEPT ![step] = IF cand = 1 THEN @ + 1 ELSE @]
    /\ \E found \in BOOLEAN, e \in ElemsAt(step) :
        IF found
        THEN /\ target' = e
             /\ probe' = Observe(probe, step, <<e>>)
             /\ pc' = "login_act"
             /\ UNCHANGED cand
        ELSE /\ e = CHOOSE x \in ElemsAt(step) : TRUE
             /\ probe' = Observe(probe, step, <<>>)
             /\ IF cand < NumCandidates(step)
                THEN cand' = cand + 1 /\ UNCHANGED pc
                ELSE pc' = "login_notfound" /\ UNCHANGED cand
             /\ UNCHANGED target
    /\ UNCHANGED <<step, polls, creds, driver, url, calls, contacted, flags, loginSt,
                   navCalls, timedOut, navOutcome, requests, logged, retrieval, batch>>

\* the mutant: Return always goes to the password field
ReturnFieldPassword(s) == "password"

\* the field that gets Keys.RETURN when the button of step s is missing:
\* email_input for the continue button, password_input for the submit button
ReturnField(s) == IF s = "continue" THEN "email" ELSE "password"

\* no candidate of the step found an element
LoginNotFound ==
    /\ pc = "login_notfound"
    /\ IF LoginNotFoundFatal(step)
       THEN /\ LoginFails({"ERROR: Could not find " \o step})
            /\ UNCHANGED <<step, calls, url>>
       ELSE \E ok \in BOOLEAN, u \in Landings :
            \* send_keys(Keys.RETURN) on the field of the step before
            IF ok
            THEN /\ calls' = Append(calls, Call("return", step, ReturnField(step)))
                 /\ url' = u
                 /\ logged' = logged \cup {"WARNING: No " \o step \o " button found"}
                 /\ EnterLoginStep(NextLoginStep(step))
                 /\ UNCHANGED <<loginResult, requests>>
            ELSE /\ u = CHOOSE x \in Landings : TRUE
                 /\ LoginFails({"WARNING: No " \o step \o " button found"})
                 /\ UNCHANGED <<step, calls, url>>
    /\ UNCHANGED <<creds, driver, contacted, flags, loginWait, lastPoll, navSt, retrieval, batch>>

\* what the program does with the element a login step found
LoginActCalls(s) ==
    CASE s = "login_button" -> <<Call("click", s, "element")>>
      [] s = "email" -> <<Call("clear", s, "element"), Call("type_username", s, "element")>>
      [] s = "continue" -> <<Call("click", s, "element")>>
      [] s = "password" -> <<Call("clear", s, "element"), Call("type_password", s, "element")>>
      [] s = "submit" -> <<Call("click", s, "element")>>

\* click the button found, or clear the field found and type the credential
LoginAct ==
    /\ pc = "login_act"
    /\ \E ok \in BOOLEAN, u \in Landings :
        IF ok
        THEN /\ calls' = calls \o LoginActCalls(step)
             /\ url' = IF step \in {"email", "password"} THEN url ELSE u
             /\ step \in {"email", "password"} => u = CHOOSE x \in Landings : TRUE
             /\ EnterLoginStep(NextLoginStep(step))
             /\ UNCHANGED <<loginResult, requests, logged>>
        ELSE /\ u = CHOOSE x \in Landings : TRUE
             /\ LoginFails({})
             /\ UNCHANGED <<step, calls, url>>
    /\ UNCHANGED <<creds, driver, contacted, flags, loginWait, lastPoll, navSt, retrieval, batch>>

\* the mutant: a poll that fails does not count against the timeout
PollsUncounted(n) == n

\* WebDriverWait(driver, timeout): each failed poll uses up part of the timeout
PollsAfter(n) == n + 1

\* one poll of WebDriverWait(driver, 180).until(<LoginComplete>).  A poll that
\* satisfies the predicate ends the wait and perform_login goes on to call
\* navigate_to_vehicles; the poll that exhausts the timeout raises.
LoginWaitPoll ==
    /\ pc = "login_wait"
    /\ polls < MaxPolls
    /\ \E u \in LoginLandings, r \in ReadyStates :
        /\ url' = u
        /\ lastPoll' = [url |-> u, ready |-> r]
        /\ IF LoginComplete(u, r)
           THEN /\ loginWait' = "ok"
                /\ navCalls' = navCalls + 1
                /\ pc' = "nav_wait" /\ step' = "enter" /\ polls' = 0
                /\ UNCHANGED <<cand, target, probe, timedOut, loginResult, logged, requests>>
           ELSE IF PollsAfter(polls) < MaxPolls
           THEN /\ polls' = PollsAfter(polls)
                /\ UNCHANGED <<pc, step, cand, target, probe, loginWait, navCalls, timedOut, loginResult,
                               logged, requests>>
           ELSE /\ loginWait' = "timeout"
                /\ LoginFails({"ERROR: Login completion detection failed"})
                /\ UNCHANGED <<step, navCalls, timedOut>>
    /\ UNCHANGED <<creds, driver, calls, contacted, flags, navOutcome, searches, retrieval, batch>>

\* ------------------------------------------------------- navigate_to_vehicles
\* the mutant: the handler lets the exception out, and perform_login and
\* start_requests then fail as for a login failure
NavHandlerReraises ==
    /\ navOutcome' = "error"
    /\ LoginFails({"ERROR: Error in navigation process"})

\* `except Exception as e:` of navigate_to_vehicles: log, screenshot, return
NavHandler ==
    /\ navOutcome' = "error"
    /\ logged' = logged \cup {"ERROR: Error in navigation process"}
    /\ pc' = "nav_returned" /\ cand' = 0 /\ target' = NoElem /\ probe' = NoProbe /\ polls' = 0
    /\ UNCHANGED <<loginResult, requests>>

\* the mutant: a missing element only skips its own step
NotFoundSkipsStep(s) == FALSE

\* a navigator step whose missing element ends the chain (the search is optional)
NotFoundAborts(s) == s # "search"

\* the mutant: log tab and flight entry swapped
NextNavStepSwapped(s) ==
    CASE s = "enter" -> "get"
      [] s = "vehicles_page" -> "search"
      [] s = "search" -> "vehicle"
      [] s = "vehicle" -> "all_flights"
      [] s = "all_flights" -> "log_tab"
      [] s = "log_tab" -> "flight"
      [] s = "flight" -> "analytics"
      [] s = "analytics" -> "download"
      [] s = "download" -> "end"

\* what follows the page-ready wait of s, or the skipped step s
NextNavStep(s) ==
    CASE s = "enter" -> "get"
      [] s = "vehicles_page" -> "search"
      [] s = "search" -> "vehicle"
      [] s = "vehicle" -> "all_flights"
      [] s = "all_flights" -> "flight"
      [] s = "flight" -> "log_tab"
      [] s = "log_tab" -> "analytics"
      [] s = "analytics" -> "download"
      [] s = "download" -> "end"

EnterNavStep(s) ==
    /\ step' = s
    /\ cand' = IF s \in {"get", "end"} THEN 0 ELSE 1
    /\ target' = NoElem /\ probe' = NoProbe
    /\ polls' = 0
    /\ pc' = CASE s = "get" -> "nav_get"
               [] s = "end" -> "nav_end"
               [] OTHER -> "nav_probe"

\* the mutant: the wait behind the search has a handler of its own, and the
\* navigator goes on to the vehicle link when it times out
SearchWaitTolerated(s) == s # "search"

\* the page-ready waits stand directly in the try block of
\* navigate_to_vehicles: a TimeoutException of any of them reaches its handler
WaitTimeoutAborts(s) == TRUE

\* one poll of WebDriverWait(driver, 30).until(readyState == "complete")
NavWaitPoll ==
    /\ pc = "nav_wait"
    /\ polls < MaxPolls
    /\ \E r \in ReadyStates :
        IF r = "complete"
        THEN /\ EnterNavStep(NextNavStep(step))
             /\ UNCHANGED <<timedOut, navOutcome, logged, loginResult, requests>>
        ELSE IF PollsAfter(polls) < MaxPolls
        THEN /\ polls' = PollsAfter(polls)
             /\ UNCHANGED <<pc, step, cand, target, probe, timedOut, navOutcome, logged,
                            loginResult, requests>>
        ELSE /\ timedOut' = step
             /\ IF WaitTimeoutAborts(step)
                THEN NavHandler /\ UNCHANGED step
                ELSE /\ EnterNavStep(NextNavStep(step))
                     /\ UNCHANGED <<navOutcome, logged, loginResult, requests>>
    /\ UNCHANGED <<creds, driver, url, calls, contacted, flags, loginWait, lastPoll,
                   navCalls, searches, retrieval, batch>>

\* driver.get("https://suite.auterion.com/vehicles")
NavGet ==
    /\ pc = "nav_get"
    /\ contacted' = contacted \cup {VehiclesUrl}
    /\ \E ok \in BOOLEAN, u \in {VehiclesUrl, IdpUrl} :
        IF ok
        THEN /\ calls' = Append(calls, Call("get", "/vehicles", "driver"))
             /\ url' = u
             /\ pc' = "nav_wait" /\ step' = "vehicles_page" /\ polls' = 0
             /\ UNCHANGED <<cand, target, probe, navOutcome, logged, loginResult, requests>>
        ELSE /\ u = VehiclesUrl
             /\ NavHandler
             /\ UNCHANGED <<step, calls, url>>
    /\ UNCHANGED <<creds, driver, flags, loginWait, lastPoll, navCalls, timedOut, searches, retrieval, batch>>

\* the steps whose loop reads the element again after keeping it (for the
\* "Found ..." log line), inside the per-locator handler
ReadsAfterMatch(s) == s # "search"

\* one candidate locator of a navigator step: find_elements, then the scan for
\* the first element passing the step's filter, all inside the per-locator
\* handler.  outcome "throws": find_elements or a read of the scan threw before
\* any match; "throws_after_match": the read after the match threw, so the
\* match is kept and the loop goes on with the next locator.
NavProbe ==
    /\ pc = "nav_probe"
    /\ searches' = [searches EXCEPT ![step] = IF cand = 1 THEN @ + 1 ELSE @]
    /\ \E outcome \in {"ok", "throws", "throws_after_match"}, a \in Answers[step] :
        LET m == a.match
            kept == IF outcome # "throws" /\ m # NoElem THEN m ELSE target
            more == cand < NumCandidates(step)
        IN  /\ outcome = "throws" => a.empty
            /\ outcome = "throws_after_match" => (m # NoElem /\ ReadsAfterMatch(step))
            /\ target' = kept
            /\ probe' = Observe(probe, step, AsList(a))
            /\ IF kept # NoElem /\ (outcome = "ok" \/ ~more)
               THEN pc' = "nav_act" /\ UNCHANGED cand
               ELSE IF more
               THEN cand' = cand + 1 /\ UNCHANGED pc
               ELSE pc' = "nav_notfound" /\ UNCHANGED cand
    /\ UNCHANGED <<step, polls, creds, driver, url, calls, contacted, flags, loginSt,
                   navCalls, timedOut, navOutcome, requests, logged, retrieval, batch>>

\* the mutant: a chain that stops at a missing element returns at once, past
\* the flag and the file
NavNotFoundReturns ==
    /\ pc = "nav_notfound"
    /\ logged' = logged \cup {"WARNING: Could not find " \o step}
    /\ IF NotFoundAborts(step)
       THEN /\ pc' = "nav_returned" /\ cand' = 0 /\ target' = NoElem /\ probe' = NoProbe
            /\ polls' = 0 /\ navOutcome' = "completed"
            /\ UNCHANGED step
       ELSE EnterNavStep(NextNavStep(step)) /\ UNCHANGED navOutcome
    /\ UNCHANGED <<creds, driver, url, calls, contacted, flags, loginSt, navCalls, timedOut, searches,
                   requests, retrieval, batch>>

\* the else branch of a step: a warning; only the search is skipped, every
\* other step ends the chain
NavNotFound ==
    /\ pc = "nav_notfound"
    /\ logged' = logged \cup {"WARNING: Could not find " \o step}
    /\ IF NotFoundAborts(step)
       THEN EnterNavStep("end")
       ELSE EnterNavStep(NextNavStep(step))
    /\ UNCHANGED <<creds, driver, url, calls, contacted, flags, loginSt, navSt,
                   requests, retrieval, batch>>

\* the mutant: the flight row itself is clicked, whatever it contains
ClickTargetRow(e) == "element"

\* what is clicked for a flight entry: the <a> inside it when find_element
\* finds one, the entry itself when that lookup raises
ClickTarget(e) == IF e.hasLink THEN "inner_link" ELSE "element"

\* the mutant: the query is typed before the field is cleared
NavActCallsTypeFirst(s, e) ==
    CASE s = "search" -> <<Call("type_query", s, "element"), Call("clear", s, "element"),
                           Call("return", s, "element")>>
      [] s = "flight" -> <<Call("click", s, ClickTarget(e))>>
      [] OTHER -> <<Call("click", s, "element")>>

\* the browser commands a navigator step issues on the element it found
NavActCalls(s, e) ==
    CASE s = "search" -> <<Call("clear", s, "element"), Call("type_query", s, "element"),
                           Call("return", s, "element")>>
      [] s = "flight" -> <<Call("click", s, ClickTarget(e))>>
      [] OTHER -> <<Call("click", s, "element")>>

\* type the query into the search input, or click the element found; then the
\* page-ready wait (after Download log: a fixed sleep and the end of the chain).
\* A command that raises leaves the commands before it done.
NavAct ==
    /\ pc = "nav_act"
    /\ \E ok \in BOOLEAN, u \in Landings :
        IF ok
        THEN /\ calls' = calls \o NavActCalls(step, target)
             /\ url' = u
             /\ IF step = "download"
                THEN EnterNavStep("end")
                ELSE /\ pc' = "nav_wait" /\ polls' = 0 /\ probe' = NoProbe
                     /\ UNCHANGED <<step, cand, target>>
             /\ UNCHANGED <<navOutcome, logged, loginResult, requests>>
        ELSE /\ u = CHOOSE x \in Landings : TRUE
             /\ \E k \in 0..(Len(NavActCalls(step, target)) - 1) :
                    calls' = calls \o SubSeq(NavActCalls(step, target), 1, k)
             /\ NavHandler
             /\ UNCHANGED <<step, url>>
    /\ UNCHANGED <<creds, driver, contacted, flags, loginWait, lastPoll, navCalls, timedOut,
                   searches, retrieval, batch>>

\* the mutant: the file names the page the session was started on
SentinelWriteLoginUrl(by, u, navLine) == [by |-> by, url |-> LoginUrl, navLine |-> navLine]

SentinelWrite(by, u, navLine) == [by |-> by, url |-> u, navLine |-> navLine]

\* the end of the try block: set the flag, write browser_open.txt, return
NavEnd ==
    /\ pc = "nav_end"
    /\ keep_browser_open' = TRUE
    /\ sentinel' = Append(sentinel, SentinelWrite("navigate_to_vehicles", url, TRUE))
    /\ navOutcome' = "completed"
    /\ pc' = "nav_returned"
    /\ UNCHANGED <<step, cand, target, probe, polls, creds, driver, url, calls, contacted,
                   quitCount, loginSt, navCalls, timedOut, searches, requests, logged, retrieval, batch>>

\* the mutant: the flag is left as navigate_to_vehicles set it
KeepOpenLeftToNavigator(keep) == keep

\* `self.keep_browser_open = True` of perform_login, after the navigator has
\* returned, and again of start_requests
KeepOpenAfterLogin(keep) == TRUE

\* the mutant: perform_login ends its success path with `return False`
login_success_false == "false"

\* what perform_login hands to start_requests when it does not raise
login_success == "true"

\* the mutant: perform_login falls off its end without `return True`
LoginReturnsNothing ==
    /\ pc = "nav_returned"
    /\ keep_browser_open' = TRUE
    /\ loginResult' = "none"
    /\ requests' = <<>>
    /\ pc' = "sr_returned"
    /\ UNCHANGED <<step, cand, target, probe, polls, creds, driver, url, calls, contacted,
                   sentinel, quitCount, loginWait, lastPoll, navSt, logged, retrieval, batch>>

\* navigate_to_vehicles has returned: perform_login sets the flag and returns
\* True; start_requests tests the value returned: on a true one it sets the
\* flag, writes browser_open.txt and returns [], on any other it goes on to
\* navigate_to_logs
LoginSucceeded ==
    /\ pc = "nav_returned"
    /\ keep_browser_open' = KeepOpenAfterLogin(keep_browser_open)
    /\ loginResult' = login_success
    /\ IF login_success = "true"
       THEN /\ sentinel' = Append(sentinel, SentinelWrite("start_requests", url, FALSE))
            /\ requests' = <<>>
            /\ pc' = "sr_returned"
       ELSE /\ pc' = "logs_start"
            /\ UNCHANGED <<sentinel, requests>>
    /\ UNCHANGED <<step, cand, target, probe, polls, creds, driver, url, calls, contacted,
                   quitCount, loginWait, lastPoll, navSt, logged, retrieval, batch>>

\* -------------------------------------------------------------------- closed
\* the mutant: the browser is closed whatever the flag says
QuitAlways(keep) == TRUE

\* `hasattr(self, 'keep_browser_open') and self.keep_browser_open` is false
ShouldQuit(keep) == ~keep

\* the spider_closed handler, run by the engine once the requests are exhausted
Closed ==
    /\ pc = "sr_returned"
    /\ queue = <<>>
    /\ IF ShouldQuit(keep_browser_open)
       THEN driver' = "quit" /\ quitCount' = quitCount + 1
       ELSE UNCHANGED <<driver, quitCount>>
    /\ pc' = "closed"
    /\ UNCHANGED <<step, cand, target, probe, polls, creds, url, calls, contacted,
                   keep_browser_open, sentinel, loginSt, navSt, requests, logged, retrieval, batch>>

\* ------------------------------------------------------------- specification
Next ==
    \/ Construct
    \/ StartRequests
    \/ LoginProbe
    \/ PasswordWait
    \/ LoginNotFound
    \/ LoginAct
    \/ LoginWaitPoll
    \/ NavWaitPoll
    \/ NavGet
    \/ NavProbe
    \/ NavNotFound
    \/ NavAct
    \/ NavEnd
    \/ LoginSucceeded
    \/ Closed

Spec == Init /\ [][Next]_vars

\* ------------------------------------------------------------- log retrieval
\* The callbacks of the retrieval path, driven as the engine drives them.
\* start_requests reaches navigate_to_logs only when perform_login returns a
\* false value, so under Spec this path never starts; SpecLogs starts it on an
\* authenticated session.

Cookie(n, v) == [name |-> n, value |-> v]

CookieValues == {Cookie("sid", "a"), Cookie("sid", "b"), Cookie("csrf", "c")}

RECURSIVE CookieDict(_)
\* {cookie['name']: cookie['value'] for cookie in selenium_cookies}: a later
\* cookie of the same name replaces an earlier one
CookieDict(cs) ==
    IF cs = <<>> THEN <<>>
    ELSE LET rest == CookieDict(SubSeq(cs, 1, Len(cs) - 1))
             c == cs[Len(cs)]
         IN  [n \in DOMAIN rest \cup {c.name} |-> IF n = c.name THEN c.value ELSE rest[n]]

Href(abs, u) == [abs |-> abs, url |-> u]

\* the href attributes an anchor of the listing page may carry
Hrefs ==
    {Href(FALSE, Url("", "", "/files/a.log")),
     Href(TRUE, Url("https", ServiceDomain, "/files/a.log")),
     Href(TRUE, Url("https", ServiceDomain, "/old/a.log")),
     Href(TRUE, Url("http", ServiceDomain, "/files/b.log")),
     Href(TRUE, Url("https", "cdn.example.com", "/files/a.log")),
     Href(FALSE, Url("", "", "/docs/readme.html"))}

\* the selector a[href*=".log"]
HasDotLog(h) == h.url.path \in {"/files/a.log", "/old/a.log", "/files/b.log"}

\* link.startswith('http')
StartsWithHttp(h) == h.abs /\ h.url.scheme \in {"http", "https"}

\* response.urljoin(link) for a path-absolute reference
UrlJoin(base, h) == IF h.abs THEN h.url ELSE Url(base.scheme, base.host, h.url.path)

\* the mutant: every link is requested as it is written in the page
LinkUrlAsWritten(base, h) == h.url

\* the URL parse_logs_page requests for a link
LinkUrl(base, h) == IF StartsWithHttp(h) THEN h.url ELSE UrlJoin(base, h)

\* response.url.split('/')[-1]
Basename(u) ==
    CASE u.path \in {"/files/a.log", "/old/a.log"} -> "a.log"
      [] u.path = "/files/b.log" -> "b.log"
      [] u.path = "/docs/readme.html" -> "readme.html"
      [] u.path = "/logs" -> "logs"
      [] OTHER -> ""

Request(u, cb, ck, df) == [url |-> u, callback |-> cb, cookies |-> ck, dont_filter |-> df]

\* allowed_domains: the engine drops a request to another host unless the
\* request is marked dont_filter
Offsite(req) == ~req.dont_filter /\ req.url.host # ServiceDomain

RECURSIVE Schedule(_, _, _)
\* the engine takes the requests a callback yielded, in order: offsite requests
\* and requests for a URL already seen are dropped (dont_filter exempts from both)
Schedule(q, sn, reqs) ==
    IF reqs = <<>> THEN [queue |-> q, seen |-> sn]
    ELSE LET r == Head(reqs)
         IN  IF Offsite(r) \/ (~r.dont_filter /\ r.url \in sn)
             THEN Schedule(q, sn, Tail(reqs))
             ELSE Schedule(Append(q, r), IF r.dont_filter THEN sn ELSE sn \cup {r.url},
                           Tail(reqs))

RECURSIVE LinkRequests(_, _)
\* the requests parse_logs_page yields for the anchors of the page, in order
LinkRequests(base, hs) ==
    IF hs = <<>> THEN <<>>
    ELSE IF HasDotLog(Head(hs))
    THEN <<Request(LinkUrl(base, Head(hs)), "save_log_file", <<>>, FALSE)>>
         \o LinkRequests(base, Tail(hs))
    ELSE LinkRequests(base, Tail(hs))

Bodies == {<<>>, <<0>>, <<0, 1>>}

\* an authenticated session on which the retrieval path is started
InitLogs ==
    /\ pc = "logs_start" /\ step = "none" /\ cand = 0 /\ target = NoElem /\ probe = NoProbe
    /\ polls = 0
    /\ username = "secret" /\ password = "secret" /\ given = NoGiven
    /\ driver = "open" /\ url \in Landings
    /\ calls = <<Call("get", "/login", "driver")>> /\ contacted = {LoginUrl}
    /\ keep_browser_open = FALSE /\ sentinel = <<>> /\ quitCount = 0
    /\ loginWait = "none" /\ lastPoll = NoPoll /\ loginResult = "none"
    /\ navCalls = 0 /\ timedOut = "none" /\ navOutcome = "none" /\ searches = [s \in AllSteps |-> 0]
    /\ requests = <<>> /\ logged = {}
    /\ cookies \in SeqsUpTo(CookieValues, 2)
    /\ queue = <<>> /\ seen = {} /\ page = NoPage /\ failed = {}
    /\ files = <<>> /\ items = <<>>
    /\ NoBatch

\* navigate_to_logs: read the cookies, load the logs page in the browser and
\* yield the request for the page the browser ended on
NavigateToLogs ==
    /\ pc = "logs_start"
    /\ contacted' = contacted \cup {LogsUrl}
    /\ \E ok \in BOOLEAN, u \in {LogsUrl, IdpUrl} :
        IF ok
        THEN LET req == Request(u, "parse_logs_page", CookieDict(cookies), TRUE)
                 sch == Schedule(queue, seen, <<req>>)
             IN  /\ calls' = Append(calls, Call("get", "/logs", "driver"))
                 /\ url' = u
                 /\ requests' = <<req>>
                 /\ queue' = sch.queue
                 /\ seen' = sch.seen
        ELSE /\ u = LogsUrl
             /\ UNCHANGED <<calls, url, requests, queue, seen>>
    /\ pc' = "sr_returned"
    /\ UNCHANGED <<step, cand, target, probe, polls, creds, driver, flags, loginSt, navSt,
                   logged, cookies, page, failed, files, items,
                   batch>>

\* the mutant: the warning is never given
NoLinksIgnored(links) == FALSE

\* `if not log_links`
NoLinks(links) == links = <<>>

\* the engine fetches the logs page and hands the response to parse_logs_page
ParseLogsPage ==
    /\ pc = "sr_returned"
    /\ queue # <<>>
    /\ Head(queue).callback = "parse_logs_page"
    /\ contacted' = contacted \cup {Head(queue).url}
    /\ \E hs \in SeqsUpTo(Hrefs, MaxLinks) :
        LET yielded == LinkRequests(Head(queue).url, hs)
            sch == Schedule(Tail(queue), seen, yielded)
        IN  /\ page' = [parsed |-> TRUE, url |-> Head(queue).url, hrefs |-> hs,
                         yielded |-> yielded]
            /\ logged' = IF NoLinks(yielded)
                         THEN logged \cup {"WARNING: No log links found"}
                         ELSE logged
            /\ queue' = sch.queue
            /\ seen' = sch.seen
    /\ UNCHANGED <<pos, creds, driver, url, calls, flags, loginSt, navSt, requests,
                   cookies, failed, files, items,
                   batch>>

\* the mutant: the file is named by the whole path of the URL
SavedRecordWholePath(u, body) ==
    [filename |-> u.path, path |-> "logs/downloaded/" \o u.path,
     url |-> u, size |-> Len(body)]

\* the dict save_log_file returns for a response
SavedRecord(u, body) ==
    [filename |-> Basename(u), path |-> "logs/downloaded/" \o Basename(u),
     url |-> u, size |-> Len(body)]

\* the mutant: the file is opened for appending
WriteFileAppends(fs, path, body) ==
    [f \in DOMAIN fs \cup {path} |->
        IF f = path THEN (IF path \in DOMAIN fs THEN fs[path] \o body ELSE body) ELSE fs[f]]

\* `with open(file_path, 'wb') as f: f.write(response.body)`: the file is
\* created or truncated, then holds the body
WriteFile(fs, path, body) ==
    [f \in DOMAIN fs \cup {path} |-> IF f = path THEN body ELSE fs[f]]

\* the engine fetches a log file and hands the response to save_log_file,
\* which writes the body to the record's path
SaveLogFile ==
    /\ pc = "sr_returned"
    /\ queue # <<>>
    /\ Head(queue).callback = "save_log_file"
    /\ contacted' = contacted \cup {Head(queue).url}
    /\ \E body \in Bodies :
        LET rec == SavedRecord(Head(queue).url, body)
        IN  /\ files' = WriteFile(files, rec.path, body)
            /\ items' = Append(items, rec)
    /\ queue' = Tail(queue)
    /\ UNCHANGED <<pos, creds, driver, url, calls, flags, loginSt, navSt, requests,
                   logged, cookies, seen, page, failed,
                   batch>>

\* the download of a request fails (connection error, error status): the
\* requests carry no errback, so the engine logs it and runs no callback
FetchFails ==
    /\ pc = "sr_returned"
    /\ queue # <<>>
    /\ contacted' = contacted \cup {Head(queue).url}
    /\ failed' = failed \cup {Head(queue).url}
    /\ queue' = Tail(queue)
    /\ UNCHANGED <<pos, creds, driver, url, calls, flags, loginSt, navSt, requests,
                   logged, cookies, seen, page, files, items,
                   batch>>

NextLogs ==
    \/ NavigateToLogs
    \/ ParseLogsPage
    \/ SaveLogFile
    \/ FetchFails
    \/ Closed

SpecLogs == InitLogs /\ [][NextLogs]_vars

\* ------------------------------------------ configuration file, batch driver
\* parseConfig and processAll are not in log_downloader.py; they are modelled
\* after their contracts.  A line is a sequence of tokens: a token is a
\* delimiter (":" or "-"), a blank, the comment mark, or a run of other
\* characters.
MaxLineLen == 4

MaxLines == 2

Chars == {"x", " ", ":", "-", "#"}

\* every line of at most MaxLineLen tokens
ShortLines == SeqsUpTo(Chars, MaxLineLen)

FleetComment == <<"#", " ", "fleet", " ", "A">>

IsoSpaced ==
    <<"drone", "-", "17", " ", ":", " ", "2024", "-", "01", "-", "01", " ", "-", " ",
      "2024", "-", "01", "-", "31">>

BadLine == <<"bad", " ", "line", " ", "without", " ", "colon">>

IsoCompact ==
    <<"drone", "-", "18", ":", "2024", "-", "02", "-", "01", "-", "2024", "-", "02", "-", "15">>

NoNameLine == <<":", " ", "2024", " ", "-", " ", "2025">>

PlainLine == <<" ", "drone", " ", ":", " ", "2024", " ", "-", " ", "2025", " ">>

PlainCompact == <<"rover", ":", "2023", "-", "2024">>

BlankLine == <<" ", " ">>

ExampleLines ==
    {FleetComment, IsoSpaced, BadLine, IsoCompact, NoNameLine, PlainLine, PlainCompact,
     BlankLine}

\* the files read: every one-line file of a short line, and every file of at
\* most MaxLines of the longer lines
ConfigFiles == {<<l>> : l \in ShortLines} \cup SeqsUpTo(ExampleLines, MaxLines)

RECURSIVE LStrip(_)
LStrip(s) == IF s # <<>> /\ Head(s) = " " THEN LStrip(Tail(s)) ELSE s

RECURSIVE RStrip(_)
RStrip(s) ==
    IF s # <<>> /\ s[Len(s)] = " " THEN RStrip(SubSeq(s, 1, Len(s) - 1)) ELSE s

\* the field with its surrounding whitespace removed
Trim(s) == RStrip(LStrip(s))

\* the part of s before its first c (all of s when it has none)
RECURSIVE Before(_, _)
Before(s, c) ==
    IF s = <<>> \/ Head(s) = c THEN <<>> ELSE <<Head(s)>> \o Before(Tail(s), c)

\* s split on its first c: two parts, or s alone when c is not present
SplitFirst(s, c) ==
    LET b == Before(s, c)
    IN  IF Len(b) = Len(s) THEN <<s>> ELSE <<b, SubSeq(s, Len(b) + 2, Len(s))>>

VehicleJob(n, sd, ed) == [name |-> n, startDate |-> sd, endDate |-> ed]

NoJob == VehicleJob(<<>>, <<>>, <<>>)

\* the mutant: the end date is taken as it stands in the line
MakeJobUntrimmedEnd(vehiclePart, start, end) ==
    VehicleJob(Trim(vehiclePart), Trim(start), end)

\* "Trims all three fields; appends VehicleJob"
MakeJob(vehiclePart, start, end) == VehicleJob(Trim(vehiclePart), Trim(start), Trim(end))

\* the mutant: the comment mark is looked for at the start of the raw line
SkippedUntrimmed(l) == Trim(l) = <<>> \/ Head(l) = "#"

\* "Skips lines that are empty after trimming or start with #"
Skipped(l) == Trim(l) = <<>> \/ Head(Trim(l)) = "#"

\* what parseConfig makes of one line: a job, a silent skip, or a skip with a
\* warning
ParseLine(l) ==
    IF Skipped(l) THEN [kind |-> "skip", job |-> NoJob]
    ELSE LET parts == SplitFirst(l, ":")
         IN  IF Len(parts) < 2 THEN [kind |-> "warn", job |-> NoJob]
             ELSE LET dates == SplitFirst(parts[2], "-")
                  IN  IF Len(dates) < 2 THEN [kind |-> "warn", job |-> NoJob]
                      ELSE [kind |-> "job", job |-> MakeJob(parts[1], dates[1], dates[2])]

\* a session is open; parseConfig is about to read the file
InitConfig ==
    /\ pc = "config" /\ step = "none" /\ cand = 0 /\ target = NoElem /\ probe = NoProbe
    /\ polls = 0
    /\ username = "secret" /\ password = "secret" /\ given = NoGiven
    /\ driver = "open" /\ url = VehiclesUrl
    /\ calls = <<>> /\ contacted = {}
    /\ keep_browser_open = FALSE /\ sentinel = <<>> /\ quitCount = 0
    /\ loginWait = "none" /\ lastPoll = NoPoll /\ loginResult = "none"
    /\ navCalls = 0 /\ timedOut = "none" /\ navOutcome = "none" /\ searches = [s \in AllSteps |-> 0]
    /\ requests = <<>> /\ logged = {}
    /\ cookies = <<>> /\ queue = <<>> /\ seen = {} /\ page = NoPage /\ failed = {}
    /\ files = <<>> /\ items = <<>>
    /\ file \in ConfigFiles
    /\ lineNo = 0 /\ jobs = <<>> /\ warnings = <<>> /\ index = 0 /\ attempts = <<>>

\* parseConfig reads the next line of the file
ReadLine ==
    /\ pc = "config"
    /\ lineNo < Len(file)
    /\ lineNo' = lineNo + 1
    /\ LET r == ParseLine(file[lineNo + 1])
       IN  /\ jobs' = IF r.kind = "job" THEN Append(jobs, r.job) ELSE jobs
           /\ warnings' = IF r.kind = "warn" THEN Append(warnings, lineNo + 1) ELSE warnings
           /\ logged' = IF r.kind = "warn"
                        THEN logged \cup {"WARNING: malformed config line"}
                        ELSE logged
    /\ UNCHANGED <<pos, creds, driver, url, calls, contacted, flags, loginSt, navSt,
                   requests, retrieval, file, index, attempts>>

\* end of file: parseConfig returns the jobs and processAll starts at index 0
EndOfFile ==
    /\ pc = "config"
    /\ lineNo = Len(file)
    /\ pc' = "batch"
    /\ UNCHANGED <<step, cand, target, probe, polls, creds, driver, url, calls, contacted, flags,
                   loginSt, navSt, requests, logged, retrieval, batch>>

\* how a navigation cycle can end: the chain ran to the download, stopped at
\* a missing element, or raised an error that the driver caught and logged
CycleOutcomes == {"downloaded", "aborted", "error"}

\* the mutant: an error ends the batch
NextIndexStopsOnError(i, outcome) == IF outcome = "error" THEN Len(jobs) ELSE i + 1

\* "Advances unconditionally to the next job regardless of per-job outcome"
NextIndex(i, outcome) == i + 1

\* processAll starts the navigation cycle of the job at the index
BeginCycle ==
    /\ pc = "batch"
    /\ index < Len(jobs)
    /\ attempts' = Append(attempts, [job |-> jobs[index + 1], outcome |-> "running"])
    /\ pc' = "cycle"
    /\ UNCHANGED <<step, cand, target, probe, polls, creds, driver, url, calls, contacted, flags,
                   loginSt, navSt, requests, logged, retrieval, file, lineNo, jobs,
                   warnings, index>>

\* the cycle ends, one way or another, and processAll advances
EndCycle ==
    /\ pc = "cycle"
    /\ \E o \in CycleOutcomes :
        /\ attempts' = [attempts EXCEPT ![Len(attempts)].outcome = o]
        /\ index' = NextIndex(index, o)
        /\ logged' = IF o = "error" THEN logged \cup {"ERROR: Error processing vehicle"}
                     ELSE logged
    /\ pc' = "batch"
    /\ UNCHANGED <<step, cand, target, probe, polls, creds, driver, url, calls, contacted, flags,
                   loginSt, navSt, requests, retrieval, file, lineNo, jobs, warnings>>

\* "Terminal condition: index reaches list length"
BatchDone ==
    /\ pc = "batch"
    /\ index >= Len(jobs)
    /\ pc' = "batch_done"
    /\ UNCHANGED <<step, cand, target, probe, polls, creds, driver, url, calls, contacted, flags,
                   loginSt, navSt, requests, logged, retrieval, batch>>

NextBatch ==
    \/ ReadLine
    \/ EndOfFile
    \/ BeginCycle
    \/ EndCycle
    \/ BatchDone

SpecBatch == InitConfig /\ [][NextBatch]_vars

\* -------------------------------------------------------------------- claims
ClickOrder == <<"vehicle", "all_flights", "flight", "log_tab", "analytics", "download">>

StepIndex(s) == CHOOSE i \in 1..Len(NavSteps) : NavSteps[i] = s

LoginStepIndex(s) == CHOOSE i \in 1..Len(LoginSteps) : LoginSteps[i] = s

IsNavClick(c) == c.op = "click" /\ c.what \in ClickSteps

\* the clicks of the navigator, in the order they were made
NavClicks == SelectSeq(calls, IsNavClick)

Clicked(s) == \E i \in 1..Len(calls) : calls[i].op = "click" /\ calls[i].what = s

\* some command was issued on the element the step s found
ActedOn(s) == \E i \in 1..Len(calls) : calls[i].what = s /\ calls[i].on = "element"

Returned == pc \in {"sr_returned", "closed"}

NavOver == pc \in {"nav_end", "nav_returned", "sr_returned", "closed"}

\* the navigator looked for the element of step s, found none, and its run is
\* over without an exception
Missing(s) == searches[s] > 0 /\ ~Clicked(s) /\ NavOver /\ navOutcome # "error"

\* C1: when no candidate of a click step of navigate_to_vehicles yields a
\* matching element, the warning of that step is logged, the step was searched
\* once, no later step is searched or clicked, and perform_login does not fail.
C1_MissingElementAbortsChain ==
    \A s \in ClickSteps :
        Missing(s) =>
            /\ ("WARNING: Could not find " \o s) \in logged
            /\ searches[s] = 1
            /\ \A m \in ClickSteps :
                  StepIndex(m) > StepIndex(s) => searches[m] = 0 /\ ~Clicked(m)
            /\ loginResult # "raised"
            /\ Returned => loginResult = "true"

C1_Witness == pc = "closed" /\ Missing("flight") /\ Clicked("all_flights")

\* C2: the navigator's clicks are a prefix of vehicle link, All Flights, flight
\* entry, log tab, View Analytics, Download log (so each is made at most once
\* and only after all earlier ones), and the navigation to the vehicles URL
\* comes before the first of them.
C2_ClicksInFixedOrder ==
    /\ Len(NavClicks) <= Len(ClickOrder)
    /\ \A i \in 1..Len(NavClicks) : NavClicks[i].what = ClickOrder[i]
    /\ \A i \in 1..Len(calls) :
          IsNavClick(calls[i]) =>
              \E j \in 1..(i - 1) : calls[j] = Call("get", "/vehicles", "driver")

C2_Witness == Len(NavClicks) = 6 /\ pc = "closed"

\* the login step s was searched and nothing was done with an element of it,
\* and the program is past the step
AuthFailedAt(s) ==
    /\ searches[s] > 0
    /\ ~ActedOn(s)
    /\ step # s \/ Returned

\* C3: when a login step that needs its element (login button, email field,
\* password field) ends without one, or the login-completion wait times out,
\* perform_login raises, no later login step is searched or acted on, the
\* navigator is never called, start_requests hands out no request, the
\* keep-open flag stays unset and the browser is quit at shutdown.
C3_AuthFailureIsFatal ==
    \A s \in {"login_button", "email", "password", "wait"} :
        (IF s = "wait" THEN loginWait = "timeout" ELSE AuthFailedAt(s)) =>
            /\ loginResult = "raised"
            /\ Returned
            /\ navCalls = 0
            /\ requests = <<>> /\ queue = <<>>
            /\ ~keep_browser_open
            /\ s # "wait" =>
                  \A m \in {LoginSteps[i] : i \in 1..Len(LoginSteps)} :
                      LoginStepIndex(m) > LoginStepIndex(s) =>
                          searches[m] = 0 /\ ~ActedOn(m)
            /\ pc = "closed" => driver = "quit"

C3_Witness ==
    /\ pc = "closed" /\ driver = "quit"
    /\ AuthFailedAt("email") /\ ActedOn("login_button")

C5_LogsRequestedAfterLogin ==
    (Returned /\ loginResult = "true") =>
        /\ Len(requests) = 1
        /\ requests[1].url = LogsUrl
        /\ requests[1].cookies = CookieDict(cookies)

C7_QuitUnlessKeepOpen ==
    /\ pc # "closed" => quitCount = 0 /\ driver # "quit"
    /\ pc = "closed" =>
          /\ quitCount = (IF keep_browser_open THEN 0 ELSE 1)
          /\ driver = (IF keep_browser_open THEN "open" ELSE "quit")

C7_Witness == pc = "closed" /\ keep_browser_open /\ driver = "open" /\ quitCount = 0

\* the constructor was given a non-empty value for neither source of a credential
NotSupplied(arg, env) == ~Truthy(arg) /\ ~Truthy(env)

\* C8: when the username or the password is supplied by neither the argument
\* nor the environment, construction fails, and then no browser session exists
\* and no page was requested.
C8_NoCredentialsNoBrowser ==
    /\ pc \in {"init_failed", "constructed"} =>
          (pc = "init_failed" <=>
              \/ NotSupplied(given.username, given.env_username)
              \/ NotSupplied(given.password, given.env_password))
    /\ pc = "init_failed" =>
          driver = "none" /\ calls = <<>> /\ contacted = {} /\ queue = <<>>
    /\ (~Truthy(username) \/ ~Truthy(password)) => pc \in {"init", "init_failed"}

C8_Witness ==
    /\ pc = "init_failed" /\ driver = "none"
    /\ given.username = "secret" /\ given.password = "" /\ given.env_password = None

\* C9: the login-completion wait succeeds only on a poll, made within its
\* bound, that saw both a URL containing suite.auterion.com and the page-ready
\* signal; perform_login returns True only after such a poll, and raises when
\* the bound is exhausted.
C9_LoginCompleteNeedsBoth ==
    /\ pc = "login_wait" => polls < MaxPolls
    /\ loginWait = "ok" =>
          ContainsServiceDomain(lastPoll.url) /\ lastPoll.ready = "complete"
    /\ loginResult = "true" => loginWait = "ok"
    /\ loginWait = "timeout" => loginResult = "raised"

C9_Witness ==
    /\ loginWait = "ok" /\ lastPoll.url = IdpMentionUrl /\ lastPoll.ready = "complete"
    /\ loginResult = "true"

LogHrefs == {page.hrefs[i] : i \in {j \in DOMAIN page.hrefs : HasDotLog(page.hrefs[j])}}

\* the URLs those hrefs resolve to against the listing response
ResolvedLogUrls == {LinkUrl(requests[1].url, h) : h \in LogHrefs}

ItemUrls == {items[i].url : i \in DOMAIN items}

RetrievalOver == pc = "closed" /\ page.parsed

SaveRequested == \E i \in DOMAIN queue : queue[i].callback = "save_log_file"

\* C12: when the listing page has no anchor whose href contains '.log',
\* parse_logs_page logs the warning and returns normally; no download request
\* is issued, nothing is fetched beyond the listing, and no file is saved.
C12_NoLinksOnlyWarns ==
    (page.parsed /\ LogHrefs = {}) =>
        /\ "WARNING: No log links found" \in logged
        /\ ~SaveRequested
        /\ seen = {}
        /\ contacted \subseteq {LoginUrl, LogsUrl, requests[1].url}
        /\ files = <<>> /\ items = <<>>
        /\ pc \in {"sr_returned", "closed"}

\* a listing with one anchor, to a page that is not a log
C12_Witness ==
    /\ page.parsed /\ page.hrefs = <<Href(FALSE, Url("", "", "/docs/readme.html"))>>
    /\ "WARNING: No log links found" \in logged
    /\ queue = <<>> /\ items = <<>> /\ pc = "closed"

\* the crawl as wired, with the thread that runs it never stopping for good
\* while it has a step to take
FairSpec == Spec /\ WF_vars(Next)

\* the handler of start_requests ran
LoginFailed == "ERROR: Login process failed" \in logged
NavigationError == navOutcome = "error"
NavigationAborted == navOutcome = "completed" /\ \E s \in ClickSteps : Missing(s)
DownloadClicked == navOutcome = "completed" /\ Clicked("download")

\* C13: every run of start_requests terminates, and it has then reached one
\* of the terminal outcomes: login failed, navigation error, navigation
\* aborted at a missing element, or download clicked.
C13_StartRequestsTerminates ==
    /\ (pc = "constructed") ~> (pc = "sr_returned")
    /\ [](Returned =>
            LoginFailed \/ NavigationError \/ NavigationAborted \/ DownloadClicked)

C13_Witness ==
    /\ pc = "sr_returned" /\ DownloadClicked
    /\ ~LoginFailed /\ ~NavigationError /\ ~NavigationAborted

LastWrite == sentinel[Len(sentinel)]

InBatch == pc \in {"batch", "cycle", "batch_done"}

\* C15: processAll attempts one navigation cycle per job, in list order and
\* one at a time, whatever the outcomes of the cycles before; it goes on
\* while the index is below the list length and ends when the index has
\* reached it, with exactly as many cycles attempted as there are jobs.
C15_BatchAttemptsEveryJob ==
    InBatch =>
        /\ index <= Len(jobs)
        /\ Len(attempts) = IF pc = "cycle" THEN index + 1 ELSE index
        /\ \A k \in DOMAIN attempts :
              /\ attempts[k].job = jobs[k]
              /\ attempts[k].outcome = "running" => (k = Len(attempts) /\ pc = "cycle")
        /\ pc = "batch_done" => (index = Len(jobs) /\ Len(attempts) = Len(jobs))
        /\ pc # "batch_done" => ENABLED NextBatch

\* two jobs: the first cycle raised, the second stopped at a missing element
C15_Witness ==
    /\ pc = "batch_done" /\ Len(jobs) = 2 /\ jobs[1] # jobs[2]
    /\ attempts[1].outcome = "error" /\ attempts[2].outcome = "aborted"

\* s without its leading and trailing blanks, stated on the positions of s
Stripped(s) ==
    LET nb == {k \in 1..Len(s) : s[k] # " "}
    IN  IF nb = {} THEN <<>>
        ELSE SubSeq(s, CHOOSE a \in nb : \A k \in nb : a <= k,
                       CHOOSE b \in nb : \A k \in nb : k <= b)

IsBlank(l) == \A k \in 1..Len(l) : l[k] = " "

IsComment(l) == \E k \in 1..Len(l) : l[k] = "#" /\ \A m \in 1..(k - 1) : l[m] = " "

\* the first ':' of l is at i and the first '-' after it is at j
DelimitersAt(l, i, j) ==
    /\ i \in 1..Len(l) /\ j \in (i + 1)..Len(l)
    /\ l[i] = ":" /\ \A k \in 1..(i - 1) : l[k] # ":"
    /\ l[j] = "-" /\ \A k \in (i + 1)..(j - 1) : l[k] # "-"

\* l reads "A : B - C" with those delimiters and a name, and is no comment
WellFormedAt(l, i, j) ==
    /\ DelimitersAt(l, i, j)
    /\ ~IsBlank(SubSeq(l, 1, i - 1))
    /\ ~IsComment(l)

JobAt(l, i, j) ==
    [name |-> Stripped(SubSeq(l, 1, i - 1)),
     startDate |-> Stripped(SubSeq(l, i + 1, j - 1)),
     endDate |-> Stripped(SubSeq(l, j + 1, Len(l)))]

LineRead == pc = "config" /\ lineNo' = lineNo + 1

\* C16: a line "A : B - C", A not blank and the line no comment, where ':' is
\* the first ':' of the line and '-' the first '-' after it, adds the job
\* {trim(A), trim(B), trim(C)} at the end of the jobs parsed from the lines
\* before it; no step removes or reorders jobs, so they are in file order.
C16_WellFormedLineYieldsJob ==
    [][/\ LineRead =>
            \A i, j \in 1..Len(file[lineNo']) :
                WellFormedAt(file[lineNo'], i, j) =>
                    jobs' = Append(jobs, JobAt(file[lineNo'], i, j))
       /\ Len(jobs') >= Len(jobs)
       /\ SubSeq(jobs', 1, Len(jobs)) = jobs]_vars

\* two well-formed lines, with and without blanks, and their jobs in order
C16_Witness ==
    /\ file = <<PlainLine, PlainCompact>> /\ lineNo = 2
    /\ jobs = <<VehicleJob(<<"drone">>, <<"2024">>, <<"2025">>),
                VehicleJob(<<"rover">>, <<"2023">>, <<"2024">>)>>

IsoLines == {IsoSpaced, IsoCompact}

\* the job the example of the configuration format gives for an ISO line
IsoJob(l) ==
    IF l = IsoSpaced
    THEN VehicleJob(<<"drone", "-", "17">>, <<"2024", "-", "01", "-", "01">>,
                    <<"2024", "-", "01", "-", "31">>)
    ELSE VehicleJob(<<"drone", "-", "18">>, <<"2024", "-", "02", "-", "01">>,
                    <<"2024", "-", "02", "-", "15">>)

ParseOver == pc \in {"batch", "cycle", "batch_done"}

\* C17: a file of lines whose dates are ISO dates, with or without blanks
\* around the delimiters, yields for each line the job whose startDate is the
\* complete first date and whose endDate is the complete second date.
C17_IsoDatesKeptWhole ==
    (ParseOver /\ file # <<>> /\ \A k \in DOMAIN file : file[k] \in IsoLines) =>
        jobs = [k \in DOMAIN file |-> IsoJob(file[k])]

\* l has a ':' and a '-' after its first ':'
HasDelimiters(l) == \E i, j \in 1..Len(l) : DelimitersAt(l, i, j)

\* the lines that are to give a job
Valid(l) == ~IsBlank(l) /\ ~IsComment(l) /\ HasDelimiters(l)

ValidLines == {k \in DOMAIN file : Valid(file[k])}

\* C18: parseConfig reads every line of every file and returns: a line
\* without ':' or without '-' after the first ':', a blank line and a line
\* whose first non-blank character is '#' leave the jobs as they are; each
\* other line adds one job behind the jobs already parsed; the result has one
\* job per such line, and none for a file without any.
C18_MalformedLinesOmitted ==
    /\ [](pc = "config" => lineNo <= Len(file))
    /\ [](ParseOver =>
            /\ lineNo = Len(file)
            /\ Len(jobs) = Cardinality(ValidLines)
            /\ ValidLines = {} => jobs = <<>>)
    /\ [][LineRead =>
            /\ pc' = "config"
            /\ SubSeq(jobs', 1, Len(jobs)) = jobs
            /\ Len(jobs') = IF Valid(file[lineNo']) THEN Len(jobs) + 1 ELSE Len(jobs)]_vars

\* a line without colon before a valid line: one job, one warning
C18_Witness ==
    /\ ParseOver /\ file = <<BadLine, PlainLine>>
    /\ jobs = <<VehicleJob(<<"drone">>, <<"2024">>, <<"2025">>)>>
    /\ warnings = <<1>>

\* C19: every job parseConfig produces has a name that is not empty after
\* trimming.
C19_JobNameNonEmpty ==
    \A k \in DOMAIN jobs : Stripped(jobs[k].name) # <<>>

\* ---- order of the login steps ----

IsLoginCall(c) == c.what \in {LoginSteps[i] : i \in 1..Len(LoginSteps)}

\* the commands perform_login has issued on the elements of its steps
LoginCalls == SelectSeq(calls, IsLoginCall)

\* the commands of a complete login, in order; the continue and the submit
\* step each have the click of the button found or the Return key sent to
\* the field filled in before
LoginOrder ==
    <<{Call("click", "login_button", "element")},
      {Call("clear", "email", "element")},
      {Call("type_username", "email", "element")},
      {Call("click", "continue", "element"), Call("return", "continue", "email")},
      {Call("clear", "password", "element")},
      {Call("type_password", "password", "element")},
      {Call("click", "submit", "element"), Call("return", "submit", "password")}>>

\* how many commands were issued when the locate loop of a step starts
CallsBefore(s) ==
    CASE s = "login_button" -> 0 [] s = "email" -> 1 [] s = "continue" -> 3
      [] s = "password" -> 4 [] s = "submit" -> 6

LoginStepSet == {LoginSteps[i] : i \in 1..Len(LoginSteps)}

\* C20: the commands of perform_login are a prefix of the fixed order: click
\* login, clear and type the email, continue (click or Return), clear and
\* type the password, submit (click or Return); each step's locate loop is
\* started at most once, after the action of the step before and before its
\* own; the completion wait starts only after the submit; the password is
\* typed only into the element the password locators found.
C20_LoginStepsInOrder ==
    /\ [](/\ Len(LoginCalls) <= Len(LoginOrder)
          /\ \A k \in DOMAIN LoginCalls : LoginCalls[k] \in LoginOrder[k]
          /\ \A s \in LoginStepSet :
                /\ searches[s] <= 1
                /\ searches[s] = 1 => Len(LoginCalls) >= CallsBefore(s)
                /\ Len(LoginCalls) > CallsBefore(s) => searches[s] = 1
                /\ (pc \in {"login_probe", "password_wait", "login_notfound", "login_act"}
                      /\ step = s) =>
                        Len(LoginCalls) = CallsBefore(s)
          /\ (pc = "login_wait" \/ loginWait # "none") =>
                Len(LoginCalls) = Len(LoginOrder))
    /\ [][(Len(calls') > Len(calls) /\ calls'[Len(calls')].op = "type_password") =>
             /\ pc = "login_act" /\ step = "password"
             /\ target \in ElemsAt("password")
             /\ searches["password"] = 1]_vars

\* a login that sent Return for the continue step and clicked the submit button
C20_Witness ==
    /\ loginWait = "ok" /\ Len(LoginCalls) = 7
    /\ LoginCalls[4] = Call("return", "continue", "email")
    /\ LoginCalls[7] = Call("click", "submit", "element")

\* ---- locate loops ----

PresenceSteps == {"login_button", "email", "continue", "submit"}

\* C21: in a presence-probing login step the element used is the first
\* element of the earliest candidate that returned any; no candidate is probed
\* after that one; the step ends without an element exactly when every
\* candidate was probed and none returned an element.
C21_FirstPresentOfEarliestLocator ==
    step \in PresenceSteps =>
        /\ pc = "login_probe" => (probe.first = NoElem /\ target = NoElem)
        /\ pc = "login_act" =>
              (target # NoElem /\ target = probe.first /\ ~probe.later)
        /\ pc = "login_notfound" =>
              (target = NoElem /\ probe.first = NoElem /\ cand = NumCandidates(step))

\* the email field came from the third candidate and is used although hidden
C21_Witness ==
    /\ pc = "login_act" /\ step = "email" /\ cand = 3
    /\ target = Elem(FALSE, "", "", FALSE) /\ probe.first = target

\* C22: in each navigator step the element acted on is the first element, in
\* candidate order and then in list order, that is displayed and passes the
\* step's filter; the step reports 'not found' exactly when no element of any
\* candidate passes.
C22_FirstFilteredMatchActedOn ==
    step \in {NavSteps[i] : i \in 1..Len(NavSteps)} =>
        /\ pc = "nav_act" => (StepFilter(step, target) /\ target = probe.first)
        /\ pc = "nav_notfound" => probe.first = NoElem
        /\ (pc \in {"nav_act", "nav_notfound"} /\ probe.first = NoElem) =>
              pc = "nav_notfound"

\* ---- login fallbacks ----

CallsOf(s) == SelectSeq(calls, LAMBDA c : c.what = s)

ButtonWarning(s) == "WARNING: No " \o s \o " button found"

\* the locate loop of the step after s was started, or the completion wait
PassedStep(s) ==
    IF s = "continue" THEN searches["password"] = 1
    ELSE pc = "login_wait" \/ loginWait # "none"

\* C23: a missing continue or submit button is never an error of its own:
\* the step sends Return to the field filled in before (the email field for
\* continue, the password field for submit) and perform_login goes on to the
\* next step; whenever a step is passed exactly one of button click and
\* Return keystroke was made for it, the keystroke exactly when no button was
\* found.
C23_ReturnKeyFallback ==
    \A s \in {"continue", "submit"} :
        /\ ("ERROR: Could not find " \o s) \notin logged
        /\ Len(CallsOf(s)) <= 1
        /\ \A k \in DOMAIN CallsOf(s) :
              CallsOf(s)[k] \in {Call("click", s, "element"),
                                 Call("return", s, IF s = "continue" THEN "email"
                                                   ELSE "password")}
        /\ PassedStep(s) =>
              /\ Len(CallsOf(s)) = 1
              /\ CallsOf(s)[1].op = "return" <=> ButtonWarning(s) \in logged
        /\ (pc = "login_notfound" /\ step = s) => (target = NoElem /\ CallsOf(s) = <<>>)

\* no continue button and no submit button: two keystrokes, and the wait began
C23_Witness ==
    /\ pc = "login_wait"
    /\ CallsOf("continue") = <<Call("return", "continue", "email")>>
    /\ CallsOf("submit") = <<Call("return", "submit", "password")>>

TypedPassword == \E k \in DOMAIN calls : calls[k].op = "type_password"

\* C24: the password field is looked for by one bounded wait per candidate,
\* in list order: while a candidate is waited for, every candidate before it
\* has timed out; the field used is the one returned by the first wait that
\* succeeded and no candidate is tried after it; 'password field not found'
\* is raised only when all three candidates have timed out, and then no
\* password is typed.
C24_PasswordFieldByBoundedWaits ==
    /\ (step = "password" /\ pc = "password_wait") =>
          (probe.first = NoElem /\ target = NoElem /\ cand <= 3 /\ ~TypedPassword)
    /\ (step = "password" /\ pc = "login_act") =>
          (target # NoElem /\ target = probe.first /\ ~probe.later)
    /\ (step = "password" /\ pc = "login_notfound") =>
          (probe.first = NoElem /\ target = NoElem /\ cand = 3)
    /\ "ERROR: Could not find password" \in logged =>
          (loginResult = "raised" /\ ~TypedPassword /\ searches["password"] = 1)
    /\ TypedPassword => searches["password"] = 1

\* the first two candidates timed out, the third wait returned the field
C24_Witness ==
    /\ step = "password" /\ pc = "login_act" /\ cand = 3
    /\ target \in ElemsAt("password") /\ target = probe.first

SearchCalls == <<Call("clear", "search", "element"), Call("type_query", "search", "element"),
                 Call("return", "search", "element")>>

SearchSkipped == "WARNING: Could not find search" \in logged

IsPrefix(a, b) == Len(a) <= Len(b) /\ a = SubSeq(b, 1, Len(a))

\* C25: when no visible search input is found the search is skipped, nothing
\* is typed, a warning is logged and the navigator goes on to the vehicle
\* link; when one is found it is cleared, the query is typed and Return is
\* pressed, in that order, and all three are done before the vehicle link is
\* looked for.
C25_SearchSkippedOrTypedFirst ==
    /\ IsPrefix(CallsOf("search"), SearchCalls)
    /\ SearchSkipped =>
          /\ CallsOf("search") = <<>>
          /\ step = "vehicle" \/ searches["vehicle"] = 1
          /\ navOutcome # "error" \/ searches["vehicle"] = 1
    /\ (pc = "nav_notfound" /\ step = "search") => (target = NoElem /\ CallsOf("search") = <<>>)
    /\ (step = "vehicle" \/ searches["vehicle"] = 1) =>
          /\ searches["search"] = 1
          /\ SearchSkipped \/ CallsOf("search") = SearchCalls
    /\ (pc = "nav_act" /\ step = "search") => searches["vehicle"] = 0

\* the search was skipped and the vehicle link was then found and clicked
C25_Witness ==
    /\ SearchSkipped
    /\ CallsOf("vehicle") = <<Call("click", "vehicle", "element")>>

\* the search was made and the vehicle link looked for afterwards
C25_WitnessTyped ==
    /\ CallsOf("search") = SearchCalls
    /\ searches["vehicle"] = 1

\* C26: for the flight entry found, exactly one click is made: on the link
\* inside the entry when it has one, and then not on the row, on the entry
\* itself when it has none.
C26_FlightInnerLinkPreferred ==
    /\ Len(CallsOf("flight")) <= 1
    /\ \A k \in DOMAIN CallsOf("flight") :
          CallsOf("flight")[k].op = "click" /\ CallsOf("flight")[k].on \in {"inner_link", "element"}
    /\ (step = "flight" /\ pc \in {"nav_probe", "nav_act", "nav_notfound"}) =>
          CallsOf("flight") = <<>>
    /\ (step = "flight" /\ pc = "nav_wait") =>
          /\ target # NoElem
          /\ target.hasLink => CallsOf("flight") = <<Call("click", "flight", "inner_link")>>
          /\ ~target.hasLink => CallsOf("flight") = <<Call("click", "flight", "element")>>

\* a flight entry with a link inside was found and its link clicked
C26_Witness ==
    /\ step = "flight" /\ pc = "nav_wait"
    /\ target # NoElem /\ target.hasLink
    /\ CallsOf("flight") = <<Call("click", "flight", "inner_link")>>

IsLogTab(e) ==
    /\ e # NoElem
    /\ e.displayed
    /\ Contains(Lower(e.text), "log")
    /\ ~Contains(Lower(e.text), "login")
    /\ ~Contains(Lower(e.text), "logout")
    /\ ~Contains(Lower(e.text), "catalog")

\* C27: the element clicked as the log tab is displayed and its lower-cased
\* text contains "log" and none of "login", "logout", "catalog"; an element
\* failing this (one matched by its href but without text included) is never
\* clicked.
C27_LogTabClickedPassesFilter ==
    /\ (step = "log_tab" /\ pc = "nav_act") => IsLogTab(target)
    /\ (step = "log_tab" /\ pc = "nav_wait") =>
          (IsLogTab(target) /\ CallsOf("log_tab") = <<Call("click", "log_tab", "element")>>)
    /\ (step = "log_tab" /\ pc \in {"nav_probe", "nav_notfound"}) => CallsOf("log_tab") = <<>>
    /\ (step = "log_tab" /\ pc = "nav_notfound") => target = NoElem
    /\ Len(CallsOf("log_tab")) <= 1

\* a displayed element whose text is "log" was found and clicked
C27_Witness ==
    /\ step = "log_tab" /\ pc = "nav_wait"
    /\ target = Elem(TRUE, "log", "", FALSE)
    /\ CallsOf("log_tab") = <<Call("click", "log_tab", "element")>>

IsDownloadLog(e) ==
    /\ e # NoElem
    /\ e.displayed
    /\ Contains(e.text, "Download log") \/ Contains(e.placeholder, "Download log")

\* C28: the element clicked in the last step is a "Download log" control:
\* displayed, and its text or its placeholder contains "Download log"; an
\* element showing only "Download" or "Download report" is never clicked.
C28_OnlyDownloadLogClicked ==
    (step = "download" /\ pc = "nav_act") => IsDownloadLog(target)

\* the step is about to click a displayed "Download report" element
C28_ReportClicked ==
    /\ step = "download" /\ pc = "nav_act"
    /\ target = Elem(TRUE, "Download report", "", FALSE)

NonEmpty(v) == v \notin {None, ""}

Resolved(arg, env) == IF NonEmpty(arg) THEN arg ELSE env

\* C29: each credential is the constructor argument when that is given and
\* non-empty and the environment variable otherwise, the username and the
\* password independently of each other; construction succeeds exactly when
\* both come out non-empty; and once the constructor has run no step of the
\* spider changes either value.
C29_CredentialsResolvedOnce ==
    /\ [](pc \in {"init_failed", "constructed"} =>
            /\ username = Resolved(given.username, given.env_username)
            /\ password = Resolved(given.password, given.env_password)
            /\ pc = "constructed" <=> (NonEmpty(username) /\ NonEmpty(password)))
    /\ [][pc # "init" => (username' = username /\ password' = password)]_vars

\* the username came from the argument although the environment had one too,
\* the password from the environment because the argument was empty
C29_Witness ==
    /\ pc = "constructed"
    /\ given = [username |-> "secret", password |-> "", env_username |-> "env_secret",
                env_password |-> "env_secret"]
    /\ username = "secret" /\ password = "env_secret"

\* the links the selector finds, in page order
Discovered == SelectSeq(page.hrefs, HasDotLog)

\* a link on the page page.url: written with http(s) it stands for itself,
\* otherwise it is taken relative to the page
Absolute(h) ==
    IF h.url.scheme \in {"http", "https"} THEN h.url
    ELSE Url(page.url.scheme, page.url.host, h.url.path)

\* C30: parse_logs_page issues exactly one fetch per discovered link, in the
\* order of discovery: for a link not starting with "http" the URL resolved
\* against the page's URL, for a link starting with "http" the link unchanged;
\* and no file fetch is queued for a URL that was not issued for a link.
C30_OneFetchPerLinkInOrder ==
    /\ ~page.parsed => (page.yielded = <<>> /\ \A k \in DOMAIN queue : queue[k].callback # "save_log_file")
    /\ page.parsed =>
          /\ Len(page.yielded) = Len(Discovered)
          /\ \A k \in DOMAIN Discovered :
                page.yielded[k] = Request(Absolute(Discovered[k]), "save_log_file", <<>>, FALSE)
          /\ \A k \in DOMAIN queue :
                queue[k].callback = "save_log_file" =>
                    \E j \in DOMAIN page.yielded : page.yielded[j] = queue[k]

\* a relative link and an http link: two requests, the first one resolved
\* against the page
C30_Witness ==
    /\ page.parsed /\ page.url = LogsUrl
    /\ page.hrefs = <<Href(FALSE, Url("", "", "/files/a.log")),
                      Href(TRUE, Url("http", ServiceDomain, "/files/b.log"))>>
    /\ page.yielded = <<Request(Url("https", ServiceDomain, "/files/a.log"), "save_log_file", <<>>, FALSE),
                        Request(Url("http", ServiceDomain, "/files/b.log"), "save_log_file", <<>>, FALSE)>>

\* ---- outcomes of the login, the flag, the sentinel ----

C32_WitnessFailed ==
    /\ pc = "closed" /\ loginWait = "timeout" /\ ~keep_browser_open /\ driver = "quit"

\* the writes of browser_open.txt made by navigate_to_vehicles
NavigatorWrites == SelectSeq(sentinel, LAMBDA w : w.by = "navigate_to_vehicles")

\* C33: navigate_to_vehicles sets the keep-open flag and writes the sentinel
\* file, with the line 'Navigation completed through: ... -> Download log',
\* on every path on which it raises no exception, the paths that stopped at a
\* missing element and never clicked Download log included; it writes nothing
\* on a path that ended in its exception handler.
C33_SentinelOnEveryQuietPath ==
    /\ navOutcome = "completed" =>
          /\ keep_browser_open
          /\ Len(NavigatorWrites) = 1
          /\ NavigatorWrites[1].navLine
          /\ sentinel[1] = NavigatorWrites[1]
    /\ navOutcome # "completed" => NavigatorWrites = <<>>
    /\ (navOutcome = "none" /\ pc # "nav_end") => ~keep_browser_open
    /\ pc = "nav_end" => navOutcome = "none"
    /\ \A k \in DOMAIN sentinel : sentinel[k].navLine <=> sentinel[k].by = "navigate_to_vehicles"

\* the chain stopped at the vehicle link, nothing was clicked, and the file
\* names the whole chain
C33_Witness ==
    /\ pc = "nav_returned" /\ navOutcome = "completed"
    /\ Missing("vehicle") /\ \A s \in ClickSteps : ~Clicked(s)
    /\ keep_browser_open /\ Len(sentinel) = 1 /\ sentinel[1].navLine

\* the navigator steps that come after the wait of step s
LaterSteps(s) ==
    IF s \in {"enter", "vehicles_page"}
    THEN {NavSteps[i] : i \in 1..Len(NavSteps)}
    ELSE {NavSteps[i] : i \in (StepIndex(s) + 1)..Len(NavSteps)}

SavesTo(f) == {i \in DOMAIN items : items[i].path = f}

\* the last of them
LastSaveTo(f) == CHOOSE i \in SavesTo(f) : \A j \in SavesTo(f) : j <= i

\* C35: save_log_file takes the target path from the trailing path segment
\* of the response URL alone, so responses whose URLs share that segment are
\* written to one path and the later write replaces the earlier file: after
\* any sequence of saves the files on disk are the paths of the records, each
\* holding the body of the last response saved to it and leaving every other
\* file as it was, and there may be fewer files than records.
C35_LastSaveWins ==
    /\ [](/\ \A i, j \in DOMAIN items :
                Basename(items[i].url) = Basename(items[j].url) => items[i].path = items[j].path
          /\ \A i \in DOMAIN items : items[i].path = "logs/downloaded/" \o Basename(items[i].url)
          /\ DOMAIN files = {items[i].path : i \in DOMAIN items}
          /\ Cardinality(DOMAIN files) <= Len(items)
          /\ \A f \in DOMAIN files :
                files[f] \in Bodies /\ Len(files[f]) = items[LastSaveTo(f)].size)
    /\ [][items' # items =>
             /\ Len(items') = Len(items) + 1 /\ SubSeq(items', 1, Len(items)) = items
             /\ \E body \in Bodies :
                   /\ items'[Len(items')].size = Len(body)
                   /\ files'[items'[Len(items')].path] = body
             /\ \A f \in DOMAIN files : f # items'[Len(items')].path => (f \in DOMAIN files' /\ files'[f] = files[f])]_vars

\* /files/a.log and /old/a.log were both saved: two records, one file, which
\* holds the second body
C35_Witness ==
    /\ Len(items) = 2 /\ items[1].url # items[2].url
    /\ items[1].path = items[2].path
    /\ items[1].size = 2 /\ items[2].size = 1
    /\ DOMAIN files = {"logs/downloaded/a.log"}
    /\ files["logs/downloaded/a.log"] = <<0>>

====
